---- MODULE Spec2Model ----
(***************************************************************************)
(* The task dependency graph and scheduler of llm-swarm                    *)
(* (src/utils/dependency_graph.py).                                        *)
(*                                                                         *)
(* The graph's dict `tasks` is modelled as a sequence of task records in   *)
(* insertion order (a Python dict iterates in insertion order); a list of  *)
(* Task objects returned by a query is modelled as the sequence of the     *)
(* tasks' ids; an exception is modelled as a record whose field `raised`   *)
(* names it, with the ids its message interpolates.                        *)
(***************************************************************************)
EXTENDS Integers, Sequences, FiniteSets, TLC

\* ---------------------------------------------------------------- bounds
MaxTasks == 3       \* task ids are 1..MaxTasks, so a graph holds at most MaxTasks tasks
MaxDeps == 2        \* longest dependency list of a task
MaxPriority == 1    \* priorities are 0..MaxPriority

TaskIds == 1..MaxTasks
Priorities == 0..MaxPriority

RECURSIVE SeqsUpTo(_, _)
SeqsUpTo(S, n) ==
    IF n = 0 THEN {<<>>}
    ELSE LET shorter == SeqsUpTo(S, n - 1)
         IN shorter \cup {Append(s, x) : s \in shorter, x \in S}

DepLists == SeqsUpTo(TaskIds, MaxDeps)

Range(s) == {s[i] : i \in DOMAIN s}

\* ---------------------------------------------------------------- Task
PENDING == "pending"
IN_PROGRESS == "in_progress"
COMPLETED == "completed"
FAILED == "failed"
SKIPPED == "skipped"
TaskStatus == {PENDING, IN_PROGRESS, COMPLETED, FAILED, SKIPPED}

None == "None"

\* Task(id, ..., dependencies, priority): status, output and error take their defaults
Task(id, dependencies, priority) ==
    [id |-> id, dependencies |-> dependencies, priority |-> priority,
     status |-> PENDING, output |-> None, error |-> None]

\* is_ready with any() in place of all()
is_ready_any(task, completed_tasks) ==
    \E i \in DOMAIN task.dependencies : task.dependencies[i] \in completed_tasks

is_ready(task, completed_tasks) ==
    \A i \in DOMAIN task.dependencies : task.dependencies[i] \in completed_tasks

\* ---------------------------------------------------------------- dict helpers
Keys(ts) == {ts[i].id : i \in DOMAIN ts}

Lookup(ts, task_id) == ts[CHOOSE i \in DOMAIN ts : ts[i].id = task_id]

IdsOf(ts) == [i \in DOMAIN ts |-> ts[i].id]

\* Update where a task that becomes FAILED also skips the tasks that depend on it
Update_cascading(ts, task_id, task) ==
    [i \in DOMAIN ts |->
        IF ts[i].id = task_id THEN task
        ELSE IF task.status = FAILED /\ task_id \in Range(ts[i].dependencies)
             THEN [ts[i] EXCEPT !.status = SKIPPED]
             ELSE ts[i]]

\* the dict with the entry of task_id set to task, at its place in the iteration order
Update(ts, task_id, task) == [i \in DOMAIN ts |-> IF ts[i].id = task_id THEN task ELSE ts[i]]

\* ---------------------------------------------------------------- list.sort(key=...)
RECURSIVE KeyLess(_, _)
KeyLess(k1, k2) ==
    IF k1 = <<>> \/ k2 = <<>> THEN FALSE
    ELSE IF Head(k1) # Head(k2) THEN Head(k1) < Head(k2)
    ELSE KeyLess(Tail(k1), Tail(k2))

\* a stable sort of a sequence of [key, item] pairs, ascending by key
RECURSIVE sort(_)
sort(pairs) ==
    IF pairs = <<>> THEN <<>>
    ELSE LET n == Len(pairs)
             x == pairs[n]
             pre == sort(SubSeq(pairs, 1, n - 1))
             k == Cardinality({i \in DOMAIN pre : ~KeyLess(x.key, pre[i].key)})
         IN SubSeq(pre, 1, k) \o <<x>> \o SubSeq(pre, k + 1, n - 1)

Items(pairs) == [i \in DOMAIN pairs |-> pairs[i].item]

\* ---------------------------------------------------------------- get_ready_tasks
completed_tasks(ts) == {ts[i].id : i \in {j \in DOMAIN ts : ts[j].status = COMPLETED}}

\* get_ready_tasks with the sort key -t.priority alone
get_ready_tasks_by_priority(ts) ==
    LET ready_tasks == SelectSeq(ts, LAMBDA task :
                           task.status = PENDING /\ is_ready(task, completed_tasks(ts)))
        keyed == [i \in DOMAIN ready_tasks |->
                     [key |-> <<0 - ready_tasks[i].priority>>, item |-> ready_tasks[i].id]]
    IN Items(sort(keyed))

\* get_ready_tasks that returns the PENDING tasks without dependencies only
get_ready_tasks_without_dependencies(ts) ==
    LET ready_tasks == SelectSeq(ts, LAMBDA task :
                           task.status = PENDING /\ task.dependencies = <<>>)
        keyed == [i \in DOMAIN ready_tasks |->
                     [key |-> <<0 - ready_tasks[i].priority, Len(ready_tasks[i].dependencies)>>,
                      item |-> ready_tasks[i].id]]
    IN Items(sort(keyed))

get_ready_tasks(ts) ==
    LET ready_tasks == SelectSeq(ts, LAMBDA task :
                           task.status = PENDING /\ is_ready(task, completed_tasks(ts)))
        keyed == [i \in DOMAIN ready_tasks |->
                     [key |-> <<0 - ready_tasks[i].priority, Len(ready_tasks[i].dependencies)>>,
                      item |-> ready_tasks[i].id]]
    IN Items(sort(keyed))

\* ---------------------------------------------------------------- get_execution_order
\* the (task, dep_id) pairs in the order the nested loops over tasks.values() and
\* task.dependencies visit them
RECURSIVE Edges(_)
Edges(ts) ==
    IF ts = <<>> THEN <<>>
    ELSE [i \in DOMAIN Head(ts).dependencies |->
             [task |-> Head(ts).id, dep |-> Head(ts).dependencies[i]]] \o Edges(Tail(ts))

\* the while loop of Kahn's algorithm without the sort of the queue by priority
RECURSIVE KahnLoop_fifo(_, _, _, _)
KahnLoop_fifo(ts, in_degree, queue, result) ==
    IF queue = <<>> THEN result
    ELSE LET current_id == Head(queue)
             dependents == {ts[i].id : i \in {j \in DOMAIN ts :
                                current_id \in Range(ts[j].dependencies)}}
             new_degree == [id \in DOMAIN in_degree |->
                               IF id \in dependents THEN in_degree[id] - 1 ELSE in_degree[id]]
             enqueued == SelectSeq(IdsOf(ts), LAMBDA id :
                             id \in dependents /\ new_degree[id] = 0)
         IN KahnLoop_fifo(ts, new_degree, Tail(queue) \o enqueued, Append(result, current_id))

\* the while loop of Kahn's algorithm
RECURSIVE KahnLoop(_, _, _, _)
KahnLoop(ts, in_degree, queue, result) ==
    IF queue = <<>> THEN result
    ELSE LET keyed == [i \in DOMAIN queue |->
                          [key |-> <<0 - Lookup(ts, queue[i]).priority>>, item |-> queue[i]]]
             sorted == Items(sort(keyed))
             current_id == Head(sorted)
             dependents == {ts[i].id : i \in {j \in DOMAIN ts :
                                current_id \in Range(ts[j].dependencies)}}
             new_degree == [id \in DOMAIN in_degree |->
                               IF id \in dependents THEN in_degree[id] - 1 ELSE in_degree[id]]
             enqueued == SelectSeq(IdsOf(ts), LAMBDA id :
                             id \in dependents /\ new_degree[id] = 0)
         IN KahnLoop(ts, new_degree, Tail(sorted) \o enqueued, Append(result, current_id))

\* get_execution_order without the existence test of line 147
get_execution_order_unchecked(ts) ==
    LET in_degree == [id \in Keys(ts) |-> Len(Lookup(ts, id).dependencies)]
        queue == SelectSeq(IdsOf(ts), LAMBDA id : in_degree[id] = 0)
        result == KahnLoop(ts, in_degree, queue, <<>>)
    IN IF Len(result) # Len(ts)
       THEN [raised |-> "circular", remaining |-> Keys(ts) \ Range(result)]
       ELSE [raised |-> None, order |-> result]

\* get_execution_order over the tasks that are not yet COMPLETED
get_execution_order_remaining(ts) ==
    get_execution_order_unchecked(SelectSeq(ts, LAMBDA task : task.status # COMPLETED))

\* get_execution_order that orders the tasks by priority alone
get_execution_order_by_priority(ts) ==
    [raised |-> None,
     order |-> Items(sort([i \in DOMAIN ts |->
                              [key |-> <<0 - ts[i].priority>>, item |-> ts[i].id]]))]

get_execution_order(ts) ==
    LET missing == SelectSeq(Edges(ts), LAMBDA e : e.dep \notin Keys(ts))
    IN IF missing # <<>>
       THEN [raised |-> "non_existent", task |-> missing[1].task, dep |-> missing[1].dep]
       ELSE LET in_degree == [id \in Keys(ts) |-> Len(Lookup(ts, id).dependencies)]
                queue == SelectSeq(IdsOf(ts), LAMBDA id : in_degree[id] = 0)
                result == KahnLoop(ts, in_degree, queue, <<>>)
            IN IF Len(result) # Len(ts)
               THEN [raised |-> "circular", remaining |-> Keys(ts) \ Range(result)]
               ELSE [raised |-> None, order |-> result]

\* ---------------------------------------------------------------- validate_dependencies
\* the exceptions `except ValueError` catches
ValueError == {"non_existent", "circular", "duplicate"}

EdgeErrors(ts) ==
    LET bad == SelectSeq(Edges(ts), LAMBDA e : e.dep \notin Keys(ts) \/ e.dep = e.task)
    IN [i \in DOMAIN bad |->
           IF bad[i].dep \notin Keys(ts)
           THEN [raised |-> "non_existent", task |-> bad[i].task, dep |-> bad[i].dep]
           ELSE [raised |-> "self", task |-> bad[i].task]]

\* validate_dependencies with an except clause that catches another exception type
validate_dependencies_uncaught(ts) ==
    LET e == get_execution_order(ts)
    IN IF e.raised = None THEN [raised |-> None, errors |-> EdgeErrors(ts)]
       ELSE [raised |-> e.raised, errors |-> <<>>]

\* validate_dependencies without the call of get_execution_order
validate_dependencies_edges_only(ts) == [raised |-> None, errors |-> EdgeErrors(ts)]

validate_dependencies(ts) ==
    LET e == get_execution_order(ts)
    IN IF e.raised = None THEN [raised |-> None, errors |-> EdgeErrors(ts)]
       ELSE IF e.raised \in ValueError
            THEN [raised |-> None, errors |-> Append(EdgeErrors(ts), e)]
            ELSE [raised |-> e.raised, errors |-> <<>>]

\* ---------------------------------------------------------------- get_status_summary
\* the loop "summary[task.status] += 1" over tasks.values()
RECURSIVE CountLoop(_, _)
CountLoop(summary, ts) ==
    IF ts = <<>> THEN summary
    ELSE CountLoop([summary EXCEPT ![Head(ts).status] = @ + 1], Tail(ts))

\* get_status_summary counting into a dict that starts empty
get_status_summary_sparse(ts) ==
    LET present == {ts[i].status : i \in DOMAIN ts}
    IN CountLoop([status \in present |-> 0], ts)

get_status_summary(ts) == CountLoop([status \in TaskStatus |-> 0], ts)

\* ---------------------------------------------------------------- get_critical_path
Returned(value) == [raised |-> None, value |-> value]

Raised(exception) == [raised |-> exception]

\* max(...) over the results of the calls it makes in order: the first exception met
\* propagates, otherwise the greatest value
MaxOf(results) ==
    LET failing == {i \in DOMAIN results : results[i].raised # None}
    IN IF failing # {}
       THEN results[CHOOSE i \in failing : \A j \in failing : i <= j]
       ELSE Returned(CHOOSE v \in {results[i].value : i \in DOMAIN results} :
                         \A i \in DOMAIN results : results[i].value <= v)

\* get_depth that counts 0 for a task without dependencies
RECURSIVE get_depth_in_edges(_, _, _)
get_depth_in_edges(ts, task_id, visited) ==
    IF task_id \in visited THEN Returned(0)
    ELSE IF task_id \notin Keys(ts) THEN Raised("KeyError")
    ELSE LET task == Lookup(ts, task_id)
             max_dep_depth ==
                 MaxOf([i \in DOMAIN task.dependencies |->
                           get_depth_in_edges(ts, task.dependencies[i], visited \cup {task_id})])
         IN IF task.dependencies = <<>> THEN Returned(0)
            ELSE IF max_dep_depth.raised # None THEN max_dep_depth
            ELSE Returned(max_dep_depth.value + 1)

\* the nested function get_depth of get_critical_path
RECURSIVE get_depth(_, _, _)
get_depth(ts, task_id, visited) ==
    IF task_id \in visited THEN Returned(0)
    ELSE IF task_id \notin Keys(ts) THEN Raised("KeyError")
    ELSE LET task == Lookup(ts, task_id)
             max_dep_depth ==
                 MaxOf([i \in DOMAIN task.dependencies |->
                           get_depth(ts, task.dependencies[i], visited \cup {task_id})])
         IN IF task.dependencies = <<>> THEN Returned(1)
            ELSE IF max_dep_depth.raised # None THEN max_dep_depth
            ELSE Returned(max_dep_depth.value + 1)

\* _get_task_depth, frames counting the calls of it on the stack: with more frames than
\* tasks some task is on the stack twice, the recursion repeats itself from there and
\* ends in RecursionError
RECURSIVE TaskDepth(_, _, _)
TaskDepth(ts, task_id, frames) ==
    IF task_id \notin Keys(ts) THEN Raised("KeyError")
    ELSE IF frames > Len(ts) THEN Raised("RecursionError")
    ELSE LET task == Lookup(ts, task_id)
             deepest == MaxOf([i \in DOMAIN task.dependencies |->
                                  TaskDepth(ts, task.dependencies[i], frames + 1)])
         IN IF task.dependencies = <<>> THEN Returned(1)
            ELSE IF deepest.raised # None THEN deepest
            ELSE Returned(deepest.value + 1)

_get_task_depth(ts, task_id) == TaskDepth(ts, task_id, 1)

\* the while loop of _build_critical_path; max(..., key=...) returns the first of the
\* dependencies that have the greatest key
RECURSIVE BuildLoop(_, _, _)
BuildLoop(ts, current_id, path) ==
    IF current_id \notin Keys(ts) THEN Raised("KeyError")
    ELSE LET current_task == Lookup(ts, current_id)
             deps == current_task.dependencies
             keys == [i \in DOMAIN deps |-> _get_task_depth(ts, deps[i])]
             greatest == MaxOf(keys)
             next_id == deps[CHOOSE i \in DOMAIN deps :
                                /\ keys[i].value = greatest.value
                                /\ \A j \in 1..(i - 1) : keys[j].value < greatest.value]
         IN IF deps = <<>> THEN Returned(<<current_id>> \o path)
            ELSE IF greatest.raised # None THEN greatest
            ELSE BuildLoop(ts, next_id, <<current_id>> \o path)

_build_critical_path(ts, task_id) == BuildLoop(ts, task_id, <<>>)

\* the for loop of get_critical_path over the rest of execution_order
RECURSIVE CriticalLoop(_, _, _, _)
CriticalLoop(ts, execution_order, max_depth, critical_tasks) ==
    IF execution_order = <<>> THEN Returned(critical_tasks)
    ELSE LET depth == get_depth(ts, Head(execution_order), {})
             built == _build_critical_path(ts, Head(execution_order))
         IN IF depth.raised # None THEN depth
            ELSE IF depth.value > max_depth
                 THEN IF built.raised # None THEN built
                      ELSE CriticalLoop(ts, Tail(execution_order), depth.value, built.value)
                 ELSE CriticalLoop(ts, Tail(execution_order), max_depth, critical_tasks)

\* get_critical_path that returns the chain of the last task of the execution order
get_critical_path_last(ts) ==
    LET e == get_execution_order(ts)
    IN IF e.raised # None THEN Raised(e.raised)
       ELSE IF e.order = <<>> THEN Returned(<<>>)
       ELSE _build_critical_path(ts, e.order[Len(e.order)])

\* get_critical_path that walks self.tasks without calling get_execution_order
get_critical_path_unordered(ts) == CriticalLoop(ts, IdsOf(ts), 0, <<>>)

get_critical_path(ts) ==
    LET e == get_execution_order(ts)
    IN IF e.raised # None THEN Raised(e.raised)
       ELSE CriticalLoop(ts, e.order, 0, <<>>)

\* ---------------------------------------------------------------- ChunkExecutor
\* _sort_tasks_by_dependencies: process_task and its loop over task.dependencies.
\* state holds sorted_tasks and processed; frames counts the calls of process_task on
\* the stack: with more of them than tasks some task is on the stack twice, not yet
\* in processed, and the recursion repeats itself without bound (RecursionError).
RECURSIVE process_task(_, _, _, _)
RECURSIVE ProcessDependencies(_, _, _, _)
process_task(ts, task_id, state, frames) ==
    IF task_id \in state.processed THEN Returned(state)
    ELSE IF task_id \notin Keys(ts) THEN Returned(state)
    ELSE IF frames > Len(ts) THEN Raised("RecursionError")
    ELSE LET after == ProcessDependencies(ts, Lookup(ts, task_id).dependencies, state, frames)
         IN IF after.raised # None THEN after
            ELSE Returned([sorted_tasks |-> Append(after.value.sorted_tasks, task_id),
                           processed |-> after.value.processed \cup {task_id}])

ProcessDependencies(ts, dependencies, state, frames) ==
    IF dependencies = <<>> THEN Returned(state)
    ELSE LET first == IF Head(dependencies) \in Keys(ts)
                      THEN process_task(ts, Head(dependencies), state, frames + 1)
                      ELSE Returned(state)
         IN IF first.raised # None THEN first
            ELSE ProcessDependencies(ts, Tail(dependencies), first.value, frames)

\* the loop "for task in tasks: process_task(task.id)"
RECURSIVE ProcessAll(_, _, _)
ProcessAll(ts, rest, state) ==
    IF rest = <<>> THEN Returned(state.sorted_tasks)
    ELSE LET next == process_task(ts, Head(rest), state, 1)
         IN IF next.raised # None THEN next
            ELSE ProcessAll(ts, Tail(rest), next.value)

_sort_tasks_by_dependencies(ts) ==
    ProcessAll(ts, IdsOf(ts), [sorted_tasks |-> <<>>, processed |-> {}])

\* ---------------------------------------------------------------- state
VARIABLES
    tasks,      \* DependencyGraph.tasks, in insertion order
    raised,     \* the exception the last call raised, or None
    added,      \* history: for each id, the tasks add_task was first called with
                \* (<<>> before the first call, then the one-element sequence of it)
    orch,       \* the position and the locals of Orchestrator.run / execute_plan
    foreign,    \* history: the number of Task method calls made by other callers
                \* than the Orchestrator
    call        \* the position and the locals of a call that runs step by step beside
                \* the other callers (get_status_summary, _generate_with_retries)

vars == <<tasks, raised, added, orch, foreign, call>>

\* no call of Orchestrator.run
NoRun == [pc |-> "idle"]

\* no call in progress
NoCall == [pc |-> "idle"]

Init ==
    /\ tasks = <<>>
    /\ raised = None
    /\ added = [id \in TaskIds |-> <<>>]
    /\ orch = NoRun
    /\ foreign = 0
    /\ call = NoCall

\* add_task without the membership test: self.tasks[task.id] = task overwrites
add_task_overwrite(task) ==
    /\ added' = IF added[task.id] = <<>> THEN [added EXCEPT ![task.id] = <<task>>] ELSE added
    /\ tasks' = IF task.id \in Keys(tasks) THEN Update(tasks, task.id, task)
                ELSE Append(tasks, task)
    /\ raised' = None

add_task(task) ==
    /\ added' = IF added[task.id] = <<>> THEN [added EXCEPT ![task.id] = <<task>>] ELSE added
    /\ IF task.id \in Keys(tasks)
       THEN /\ raised' = "duplicate"
            /\ UNCHANGED tasks
       ELSE /\ tasks' = Append(tasks, task)
            /\ raised' = None

\* The caller's ids are arbitrary strings that the code only compares for equality, so
\* the model names them in the order they enter the graph: the next new task is
\* Len(tasks) + 1. A dependency may name any id, also one that is added later or never.
NextId == Len(tasks) + 1

AddTask ==
    /\ NextId \in TaskIds
    /\ \E deps \in DepLists, p \in Priorities : add_task(Task(NextId, deps, p))
    /\ UNCHANGED <<orch, foreign, call>>

\* add_task with an id already present; the task's other fields are never read on this
\* path, so the calls are drawn with every priority and no dependencies
AddDuplicate ==
    /\ \E id \in Keys(tasks), p \in Priorities : add_task(Task(id, <<>>, p))
    /\ UNCHANGED <<orch, foreign, call>>

Next == AddTask \/ AddDuplicate


Spec == Init /\ [][Next]_vars

\* ---------------------------------------------------------------- status changes
\* Task.mark_completed(output)
mark_completed(task, output) == [task EXCEPT !.status = COMPLETED, !.output = output]

\* Task.mark_failed(error)
mark_failed(task, error) == [task EXCEPT !.status = FAILED, !.error = error]

\* The status changes are the ones Orchestrator.execute_plan makes on a task it visits:
\* a PENDING task is failed for want of an agent or set IN_PROGRESS, and an IN_PROGRESS
\* task is marked completed or failed with the outcome of agent.run_task.
NoAgent(id) ==
    /\ id \in Keys(tasks)
    /\ Lookup(tasks, id).status = PENDING
    /\ tasks' = Update(tasks, id, mark_failed(Lookup(tasks, id), "error"))
    /\ raised' = None
    /\ UNCHANGED <<added, orch, foreign, call>>

StartTask(id) ==
    /\ id \in Keys(tasks)
    /\ Lookup(tasks, id).status = PENDING
    /\ tasks' = Update(tasks, id, [Lookup(tasks, id) EXCEPT !.status = IN_PROGRESS])
    /\ raised' = None
    /\ UNCHANGED <<added, orch, foreign, call>>

TaskSucceeds(id) ==
    /\ id \in Keys(tasks)
    /\ Lookup(tasks, id).status = IN_PROGRESS
    /\ tasks' = Update(tasks, id, mark_completed(Lookup(tasks, id), "output"))
    /\ raised' = None
    /\ UNCHANGED <<added, orch, foreign, call>>

TaskFails(id) ==
    /\ id \in Keys(tasks)
    /\ Lookup(tasks, id).status = IN_PROGRESS
    /\ tasks' = Update(tasks, id, mark_failed(Lookup(tasks, id), "error"))
    /\ raised' = None
    /\ UNCHANGED <<added, orch, foreign, call>>

\* dependency lists that name each id at most once, in ascending order
AscendingDepLists == {deps \in DepLists : \A i \in 1..(Len(deps) - 1) : deps[i] < deps[i + 1]}

AddTaskAscending ==
    /\ NextId \in TaskIds
    /\ \E deps \in AscendingDepLists, p \in Priorities : add_task(Task(NextId, deps, p))
    /\ UNCHANGED <<orch, foreign, call>>

NextStatus ==
    \/ AddTaskAscending
    \/ AddDuplicate
    \/ \E id \in TaskIds : NoAgent(id)
    \/ \E id \in TaskIds : StartTask(id)
    \/ \E id \in TaskIds : TaskSucceeds(id)
    \/ \E id \in TaskIds : TaskFails(id)

\* the graph under construction and execution: add_task calls interleaved with the
\* driver's status changes
SpecStatus == Init /\ [][NextStatus]_vars

\* ---------------------------------------------------------------- graph properties
\* (what the claims call a dangling dependency, a self-dependency and a cycle)
DepsOf(ts, id) == Range(Lookup(ts, id).dependencies)

HasDangling(ts) == \E id \in Keys(ts) : ~(DepsOf(ts, id) \subseteq Keys(ts))

HasSelfDep(ts) == \E id \in Keys(ts) : id \in DepsOf(ts, id)

RECURSIVE Reach(_, _)
Reach(ts, S) ==
    LET next == S \cup UNION {DepsOf(ts, x) \cap Keys(ts) : x \in S}
    IN IF next = S THEN S ELSE Reach(ts, next)

\* the ids of the graph that id depends on, directly or transitively
TransitiveDeps(ts, id) == Reach(ts, DepsOf(ts, id) \cap Keys(ts))

OnCycle(ts) == {id \in Keys(ts) : id \in TransitiveDeps(ts, id)}

HasCycle(ts) == OnCycle(ts) # {}

HasRepeatedDep(ts) ==
    \E id \in Keys(ts) : Cardinality(DepsOf(ts, id)) # Len(Lookup(ts, id).dependencies)

\* order holds every task of ts exactly once, each after all its dependencies
IsTopologicalOrder(ts, order) ==
    /\ Len(order) = Len(ts)
    /\ Range(order) = Keys(ts)
    /\ \A i \in DOMAIN order : \A d \in DepsOf(ts, order[i]) :
           \E j \in 1..(i - 1) : order[j] = d

\* ---------------------------------------------------------------- claims on Spec
\* C1 (as claimed): on every graph with no cycle and no dangling dependency,
\* get_execution_order returns every task exactly once, each after all its dependencies.
C1_OrderIsTopological ==
    (~HasCycle(tasks) /\ ~HasDangling(tasks)) =>
        LET r == get_execution_order(tasks)
        IN r.raised = None /\ IsTopologicalOrder(tasks, r.order)

\* C2 (as claimed): on every graph whose dependency ids all exist, get_execution_order
\* raises the circular-dependency error exactly when some task transitively depends on
\* itself, and returns an order otherwise.
C2_CircularIffCycle ==
    ~HasDangling(tasks) =>
        LET r == get_execution_order(tasks)
        IN /\ (r.raised = "circular") <=> HasCycle(tasks)
           /\ (r.raised = None) <=> ~HasCycle(tasks)

\* C3: whenever some task lists a dependency id that is not a key of the graph,
\* get_execution_order raises the non-existent-dependency error for a dangling edge of the
\* graph and returns no order, also when the graph contains a cycle.
C3_DanglingRaises ==
    HasDangling(tasks) =>
        LET r == get_execution_order(tasks)
        IN /\ r.raised = "non_existent"
           /\ "order" \notin DOMAIN r
           /\ r.task \in Keys(tasks)
           /\ r.dep \in DepsOf(tasks, r.task) \ Keys(tasks)

C3_Witness ==
    /\ HasDangling(tasks)
    /\ HasCycle(tasks)
    /\ get_execution_order(tasks).raised = "non_existent"

\* the task ids a validation message names
Named(e) ==
    IF e.raised = "circular" THEN e.remaining
    ELSE IF e.raised = "non_existent" THEN {e.task, e.dep}
    ELSE {e.task}

\* the tasks with a dangling dependency or a self-dependency, and the tasks on a cycle
Offending(ts) ==
    {id \in Keys(ts) : ~(DepsOf(ts, id) \subseteq Keys(ts)) \/ id \in DepsOf(ts, id)}
        \cup OnCycle(ts)

\* C7 (as claimed): validate_dependencies returns an empty list on every graph with no
\* dangling reference, no self-dependency and no cycle, and on every other graph a
\* non-empty list with a message that names an offending task.
C7_EmptyIffValid ==
    LET v == validate_dependencies(tasks)
    IN IF Offending(tasks) = {}
       THEN v.errors = <<>>
       ELSE \E i \in DOMAIN v.errors : Named(v.errors[i]) \cap Offending(tasks) # {}

\* C8: validate_dependencies never raises; when the topological sort fails, its error
\* is an entry of the returned list.
C8_NeverRaises ==
    LET v == validate_dependencies(tasks)
        r == get_execution_order(tasks)
    IN /\ v.raised = None
       /\ r.raised # None => r \in Range(v.errors)

C8_Witness ==
    /\ HasCycle(tasks)
    /\ HasSelfDep(tasks)
    /\ get_execution_order(tasks).raised = "circular"
    /\ validate_dependencies(tasks).raised = None

\* C9 (as claimed): on every graph with a cycle the list holds a circular-dependency
\* entry naming the tasks on the cycle, also when the graph has a dangling dependency,
\* and every dangling edge and every self-dependency has its own entry.
C9_AllProblemsListed ==
    LET errors == Range(validate_dependencies(tasks).errors)
    IN /\ HasCycle(tasks) =>
              \E e \in errors : e.raised = "circular" /\ OnCycle(tasks) \subseteq e.remaining
       /\ \A id \in Keys(tasks) : \A d \in DepsOf(tasks, id) :
              /\ d \notin Keys(tasks) =>
                     [raised |-> "non_existent", task |-> id, dep |-> d] \in errors
              /\ d = id => [raised |-> "self", task |-> id] \in errors

\* ---------------------------------------------------------------- claims on SpecStatus
\* what a status change leaves alone: the ids in insertion order, with the dependencies
\* and the priority of each task
Shape(ts) == [i \in DOMAIN ts |-> <<ts[i].id, ts[i].dependencies, ts[i].priority>>]

\* C4: a call of get_execution_order after any step that adds no task and changes no
\* priority and no dependency list (the status changes) returns what the call before
\* that step returned: the same error, or the same sequence in the same order.
C4_OrderDeterministic ==
    [][Shape(tasks') = Shape(tasks) =>
           get_execution_order(tasks') = get_execution_order(tasks)]_vars

C4_Witness ==
    LET r == get_execution_order(tasks)
    IN /\ Len(tasks) = MaxTasks
       /\ \E i, j \in DOMAIN tasks : tasks[i].status = COMPLETED /\ tasks[j].status = FAILED
       /\ r.raised = None
       /\ \E i \in 1..(Len(r.order) - 1) :
              /\ Lookup(tasks, r.order[i]).priority = Lookup(tasks, r.order[i + 1]).priority
              /\ r.order[i] > r.order[i + 1]

\* C5: get_ready_tasks returns, each once, exactly the PENDING tasks whose every
\* dependency id is the id of a COMPLETED task of the graph.
C5_ReadyTasksExact ==
    LET ready == get_ready_tasks(tasks)
    IN /\ Range(ready) =
              {id \in Keys(tasks) :
                  /\ Lookup(tasks, id).status = PENDING
                  /\ \A d \in DepsOf(tasks, id) :
                         d \in Keys(tasks) /\ Lookup(tasks, d).status = COMPLETED}
       /\ Cardinality(Range(ready)) = Len(ready)

C5_Witness ==
    LET ready == Range(get_ready_tasks(tasks))
    IN \E a, b \in Keys(tasks) :
           /\ a \in ready
           /\ DepsOf(tasks, a) # {}
           /\ Lookup(tasks, b).status = PENDING
           /\ b \notin ready
           /\ DepsOf(tasks, b) \cap completed_tasks(tasks) # {}

\* C6: in the list get_ready_tasks returns, each task a and the task b right after it
\* have priority(a) > priority(b), or equal priorities and len(a.dependencies) <=
\* len(b.dependencies).
C6_ReadyTasksSorted ==
    LET ready == get_ready_tasks(tasks)
    IN \A i \in 1..(Len(ready) - 1) :
           LET a == Lookup(tasks, ready[i])
               b == Lookup(tasks, ready[i + 1])
           IN \/ a.priority > b.priority
              \/ a.priority = b.priority /\ Len(a.dependencies) <= Len(b.dependencies)

C6_Witness ==
    LET ready == get_ready_tasks(tasks)
    IN \E i \in 1..(Len(ready) - 1) :
           LET a == Lookup(tasks, ready[i])
               b == Lookup(tasks, ready[i + 1])
           IN /\ a.priority = b.priority
              /\ Len(a.dependencies) < Len(b.dependencies)
              /\ a.id > b.id

\* C10: a call of add_task that raises the duplicate error leaves the graph as it was
\* (ids, stored tasks, statuses); a call that leaves the graph as it was has raised the
\* duplicate error (every other call adds a task or changes a status); and at all times
\* each id of the graph is stored once and maps to the task add_task was first called
\* with under that id.
FirstAddedKept ==
    /\ Cardinality(Keys(tasks)) = Len(tasks)
    /\ Keys(tasks) = {id \in TaskIds : added[id] # <<>>}
    /\ \A i \in DOMAIN tasks :
           LET first == added[tasks[i].id][1]
           IN /\ tasks[i].dependencies = first.dependencies
              /\ tasks[i].priority = first.priority

C10_DuplicateRejected ==
    /\ []FirstAddedKept
    /\ [][raised' = "duplicate" => tasks' = tasks]_vars
    /\ [][tasks' = tasks => raised' = "duplicate"]_vars

C10_Witness ==
    /\ raised = "duplicate"
    /\ \E i \in DOMAIN tasks : tasks[i].status = COMPLETED
    /\ \E i \in DOMAIN tasks : tasks[i].priority # 0 \/ tasks[i].dependencies # <<>>

\* ---------------------------------------------------------------- the four-task plan
\* the first four tasks of the fallback plan: 1 = setup, 2 = database [setup],
\* 3 = backend [database], 4 = frontend [backend]
ScenarioDeps == <<<<>>, <<1>>, <<2>>, <<3>>>>

ScenarioIds == DOMAIN ScenarioDeps

InitScenario ==
    /\ tasks = <<>>
    /\ raised = None
    /\ added = [id \in ScenarioIds |-> <<>>]
    /\ orch = NoRun
    /\ foreign = 0
    /\ call = NoCall

\* the tasks of the plan are added in any order, with any priorities
AddScenarioTask ==
    /\ \E id \in ScenarioIds \ Keys(tasks), p \in Priorities :
           add_task(Task(id, ScenarioDeps[id], p))
    /\ UNCHANGED <<orch, foreign, call>>

\* setup.mark_completed(), on the complete graph
CompleteSetup ==
    /\ Keys(tasks) = ScenarioIds
    /\ Lookup(tasks, 1).status = PENDING
    /\ tasks' = Update(tasks, 1, mark_completed(Lookup(tasks, 1), None))
    /\ raised' = None
    /\ UNCHANGED <<added, orch, foreign, call>>

NextScenario == AddScenarioTask \/ CompleteSetup

SpecScenario == InitScenario /\ [][NextScenario]_vars

\* ---------------------------------------------------------------- the queries
\* Each query computes its result from self.tasks and stores nothing in it or in a
\* task; raised records how the call ended.
GetTask(task_id) ==
    /\ raised' = None
    /\ UNCHANGED <<tasks, added, orch, foreign, call>>

\* get_ready_tasks that hands the ready tasks out as started
GetReadyTasksStarting ==
    /\ tasks' = [i \in DOMAIN tasks |->
                    IF tasks[i].id \in Range(get_ready_tasks(tasks))
                    THEN [tasks[i] EXCEPT !.status = IN_PROGRESS] ELSE tasks[i]]
    /\ raised' = None
    /\ UNCHANGED <<added, orch, foreign, call>>

GetReadyTasks ==
    /\ raised' = None
    /\ UNCHANGED <<tasks, added, orch, foreign, call>>

GetExecutionOrder ==
    /\ raised' = get_execution_order(tasks).raised
    /\ UNCHANGED <<tasks, added, orch, foreign, call>>

ValidateDependencies ==
    /\ raised' = validate_dependencies(tasks).raised
    /\ UNCHANGED <<tasks, added, orch, foreign, call>>

GetStatusSummary ==
    /\ raised' = None
    /\ UNCHANGED <<tasks, added, orch, foreign, call>>

GetCriticalPath ==
    /\ raised' = get_critical_path(tasks).raised
    /\ UNCHANGED <<tasks, added, orch, foreign, call>>

NextQuery ==
    \/ AddTaskAscending
    \/ \E id \in TaskIds : NoAgent(id)
    \/ \E id \in TaskIds : StartTask(id)
    \/ \E id \in TaskIds : TaskSucceeds(id)
    \/ \E id \in TaskIds : TaskFails(id)
    \/ \E task_id \in TaskIds : GetTask(task_id)
    \/ GetReadyTasks
    \/ GetExecutionOrder
    \/ ValidateDependencies
    \/ GetStatusSummary
    \/ GetCriticalPath

SpecQuery == Init /\ [][NextQuery]_vars

\* ---------------------------------------------------------------- Orchestrator.run
\* the task lists plan_tasks can return: any tasks, ids possibly repeated (the ids are
\* named in the order of their first occurrence)
RECURSIVE PlansOfLen(_)
PlansOfLen(n) ==
    IF n = 0 THEN {<<>>}
    ELSE UNION {{Append(p, Task(id, deps, priority)) :
                    id \in 1..(Cardinality(Keys(p)) + 1),
                    deps \in AscendingDepLists,
                    priority \in Priorities} : p \in PlansOfLen(n - 1)}

\* the task lists of at most n tasks
Plans(n) == UNION {PlansOfLen(k) : k \in 0..n}

\* run(project_spec, dry_run) on a new Orchestrator, after plan_tasks has returned
InitRun ==
    /\ tasks = <<>>
    /\ raised = None
    /\ added = [id \in TaskIds |-> <<>>]
    /\ \E plan \in Plans(MaxTasks), dry_run \in BOOLEAN :
           orch = [pc |-> "run", plan |-> plan, dry_run |-> dry_run,
                   execution_order |-> <<>>, validated |-> FALSE, result |-> None]
    /\ foreign = 0
    /\ call = NoCall

Return(result) == [orch EXCEPT !.pc = "done", !.result = result]

\* "if not tasks: return False"
RunNoTasks ==
    /\ orch.pc = "run"
    /\ orch.plan = <<>>
    /\ orch' = Return("False")
    /\ UNCHANGED <<tasks, raised, added, foreign, call>>

\* one turn of "for task in tasks: self.dependency_graph.add_task(task)"; the
\* ValueError of add_task ends run in "except Exception: return False"
RunAddTask ==
    /\ orch.pc \in {"run", "add_task"}
    /\ orch.plan # <<>>
    /\ add_task(Head(orch.plan))
    /\ orch' = IF raised' # None THEN Return("False")
               ELSE [orch EXCEPT !.pc = "add_task", !.plan = Tail(@), !.validated = FALSE]
    /\ UNCHANGED <<foreign, call>>

\* run that goes on to execute_plan without calling validate_dependencies
RunValidateSkipped ==
    /\ orch.pc = "add_task"
    /\ orch.plan = <<>>
    /\ orch' = IF orch.dry_run THEN Return("True") ELSE [orch EXCEPT !.pc = "execute_plan"]
    /\ UNCHANGED <<tasks, raised, added, foreign, call>>

\* validate_dependencies after the loop, "if validation_errors: return False", then
\* the dry run's return True or the call of execute_plan
RunValidate ==
    /\ orch.pc = "add_task"
    /\ orch.plan = <<>>
    /\ LET validation == validate_dependencies(tasks)
       IN /\ raised' = validation.raised
          /\ orch' = IF validation.raised # None \/ validation.errors # <<>>
                     THEN Return("False")
                     ELSE IF orch.dry_run THEN [Return("True") EXCEPT !.validated = TRUE]
                     ELSE [orch EXCEPT !.pc = "execute_plan", !.validated = TRUE]
    /\ UNCHANGED <<tasks, added, foreign, call>>

\* execute_plan up to the loop: get_execution_order, whose ValueError ends in
\* "except Exception: return False"
ExecutePlan ==
    /\ orch.pc = "execute_plan"
    /\ LET e == get_execution_order(tasks)
       IN /\ raised' = e.raised
          /\ orch' = IF e.raised # None THEN Return("False")
                     ELSE [orch EXCEPT !.pc = "loop", !.execution_order = e.order]
    /\ UNCHANGED <<tasks, added, foreign, call>>

\* the no-agent branch that leaves the task at the head of the order
LoopNoAgentRepeating ==
    /\ orch.pc = "loop"
    /\ orch.execution_order # <<>>
    /\ LET task == Lookup(tasks, Head(orch.execution_order))
       IN tasks' = Update(tasks, task.id, mark_failed(task, "No suitable agent found"))
    /\ raised' = None
    /\ UNCHANGED <<added, orch, foreign, call>>

\* a turn of the loop for a task without agent: mark_failed and continue
LoopNoAgent ==
    /\ orch.pc = "loop"
    /\ orch.execution_order # <<>>
    /\ LET task == Lookup(tasks, Head(orch.execution_order))
       IN tasks' = Update(tasks, task.id, mark_failed(task, "No suitable agent found"))
    /\ orch' = [orch EXCEPT !.execution_order = Tail(@)]
    /\ raised' = None
    /\ UNCHANGED <<added, foreign, call>>

\* a turn of the loop for a task with an agent, up to the call of run_task
LoopStart ==
    /\ orch.pc = "loop"
    /\ orch.execution_order # <<>>
    /\ LET task == Lookup(tasks, Head(orch.execution_order))
       IN tasks' = Update(tasks, task.id, [task EXCEPT !.status = IN_PROGRESS])
    /\ orch' = [orch EXCEPT !.pc = "run_task"]
    /\ raised' = None
    /\ UNCHANGED <<added, foreign, call>>

\* run_task returned an output with success: mark_completed(output)
RunTaskSucceeds ==
    /\ orch.pc = "run_task"
    /\ LET task == Lookup(tasks, Head(orch.execution_order))
       IN tasks' = Update(tasks, task.id, mark_completed(task, "output"))
    /\ orch' = [orch EXCEPT !.pc = "loop", !.execution_order = Tail(@)]
    /\ raised' = None
    /\ UNCHANGED <<added, foreign, call>>

\* run_task returned an output without success: mark_failed(output.error or ...)
RunTaskFails ==
    /\ orch.pc = "run_task"
    /\ LET task == Lookup(tasks, Head(orch.execution_order))
       IN tasks' = Update(tasks, task.id, mark_failed(task, "error"))
    /\ orch' = [orch EXCEPT !.pc = "loop", !.execution_order = Tail(@)]
    /\ raised' = None
    /\ UNCHANGED <<added, foreign, call>>

\* execute_plan that reports success when some task has completed
ExecutePlanReturnAnyCompleted ==
    /\ orch.pc = "loop"
    /\ orch.execution_order = <<>>
    /\ orch' = Return(IF get_status_summary(tasks)[COMPLETED] > 0 THEN "True" ELSE "False")
    /\ raised' = None
    /\ UNCHANGED <<tasks, added, foreign, call>>

\* after the loop: success = status_summary[FAILED] == 0
ExecutePlanReturn ==
    /\ orch.pc = "loop"
    /\ orch.execution_order = <<>>
    /\ orch' = Return(IF get_status_summary(tasks)[FAILED] = 0 THEN "True" ELSE "False")
    /\ raised' = None
    /\ UNCHANGED <<tasks, added, foreign, call>>

NextRun ==
    \/ RunNoTasks
    \/ RunAddTask
    \/ RunValidate
    \/ ExecutePlan
    \/ LoopNoAgent
    \/ LoopStart
    \/ RunTaskSucceeds
    \/ RunTaskFails
    \/ ExecutePlanReturn

SpecRun == InitRun /\ [][NextRun]_vars

\* ---------------------------------------------------------------- other callers
\* The tasks of the graph are handed out by get_task, get_ready_tasks and
\* get_execution_order; another caller than the Orchestrator calls mark_completed or
\* mark_failed on one of them, at most MaxForeignCalls times.
MaxForeignCalls == 1

ForeignMarkCompleted(id) ==
    /\ foreign < MaxForeignCalls
    /\ id \in Keys(tasks)
    /\ tasks' = Update(tasks, id, mark_completed(Lookup(tasks, id), "output"))
    /\ foreign' = foreign + 1
    /\ raised' = None
    /\ UNCHANGED <<added, orch, call>>

ForeignMarkFailed(id) ==
    /\ foreign < MaxForeignCalls
    /\ id \in Keys(tasks)
    /\ tasks' = Update(tasks, id, mark_failed(Lookup(tasks, id), "error"))
    /\ foreign' = foreign + 1
    /\ raised' = None
    /\ UNCHANGED <<added, orch, call>>

NextRunApi ==
    \/ RunNoTasks
    \/ RunAddTask
    \/ RunValidate
    \/ ExecutePlan
    \/ LoopNoAgent
    \/ LoopStart
    \/ RunTaskSucceeds
    \/ RunTaskFails
    \/ ExecutePlanReturn
    \/ \E id \in TaskIds : ForeignMarkCompleted(id)
    \/ \E id \in TaskIds : ForeignMarkFailed(id)

SpecRunApi == InitRun /\ [][NextRunApi]_vars

\* ---------------------------------------------------------------- get_status_summary, step by step
\* get_status_summary run beside a driver that changes statuses: the dictionary
\* comprehension, then one turn of the loop per step (the read of task.status and the
\* increment of the local dictionary), then the return. add_task is not called while
\* the loop runs.
SummaryAddTask ==
    /\ call.pc # "summary"
    /\ NextId \in TaskIds
    /\ \E p \in Priorities : add_task(Task(NextId, <<>>, p))
    /\ UNCHANGED <<orch, foreign, call>>

\* the call with a dictionary that holds the statuses present when it starts only
SummaryStartSparse ==
    /\ call.pc # "summary"
    /\ call' = [pc |-> "summary", position |-> 1,
                summary |-> [status \in {tasks[i].status : i \in DOMAIN tasks} |-> 0]]
    /\ UNCHANGED <<tasks, raised, added, orch, foreign>>

SummaryStart ==
    /\ call.pc # "summary"
    /\ call' = [pc |-> "summary", position |-> 1, summary |-> [status \in TaskStatus |-> 0]]
    /\ UNCHANGED <<tasks, raised, added, orch, foreign>>

SummaryStep ==
    /\ call.pc = "summary"
    /\ call.position \in DOMAIN tasks
    /\ LET task == tasks[call.position]
       IN call' = IF task.status \in DOMAIN call.summary
                  THEN [call EXCEPT !.position = @ + 1, !.summary[task.status] = @ + 1]
                  ELSE [pc |-> "returned", result |-> Raised("KeyError")]
    /\ UNCHANGED <<tasks, raised, added, orch, foreign>>

SummaryReturn ==
    /\ call.pc = "summary"
    /\ call.position \notin DOMAIN tasks
    /\ call' = [pc |-> "returned", result |-> Returned(call.summary)]
    /\ UNCHANGED <<tasks, raised, added, orch, foreign>>

NextSummary ==
    \/ SummaryAddTask
    \/ \E id \in TaskIds : NoAgent(id)
    \/ \E id \in TaskIds : StartTask(id)
    \/ \E id \in TaskIds : TaskSucceeds(id)
    \/ \E id \in TaskIds : TaskFails(id)
    \/ SummaryStart
    \/ SummaryStep
    \/ SummaryReturn

SpecSummary == Init /\ [][NextSummary]_vars

\* ---------------------------------------------------------------- _generate_with_retries
MaxRetries == 2

MaxResponseLen == 2

\* a response of the model is a string, read as the sequence of its characters
Whitespace == {" ", "\n"}

Characters == Whitespace \cup {"a"}

Responses == SeqsUpTo(Characters, MaxResponseLen)

RECURSIVE lstrip(_)
lstrip(s) == IF s # <<>> /\ Head(s) \in Whitespace THEN lstrip(Tail(s)) ELSE s

RECURSIVE rstrip(_)
rstrip(s) ==
    IF s # <<>> /\ s[Len(s)] \in Whitespace THEN rstrip(SubSeq(s, 1, Len(s) - 1)) ELSE s

strip(s) == rstrip(lstrip(s))

\* what one call of _generate_response does: it returns a string or raises
GenerateResponses == {Returned(r) : r \in Responses} \cup {Raised("Exception")}

InitRetry ==
    /\ tasks = <<>>
    /\ raised = None
    /\ added = [id \in TaskIds |-> <<>>]
    /\ orch = NoRun
    /\ foreign = 0
    /\ call \in {[pc |-> "generate", max_retries |-> m, attempt |-> 0, last_error |-> None,
                  responses |-> <<>>, sleeps |-> <<>>] : m \in 0..MaxRetries}

\* one turn of the loop with time.sleep called after every failed attempt
GenerateAttemptSleepingAfterLast ==
    /\ call.pc = "generate"
    /\ call.attempt \in 0..call.max_retries
    /\ \E response \in GenerateResponses :
          IF response.raised = None /\ response.value # <<>> /\ strip(response.value) # <<>>
          THEN call' = [pc |-> "returned", max_retries |-> call.max_retries,
                        result |-> Returned(response.value),
                        responses |-> Append(call.responses, response),
                        sleeps |-> call.sleeps]
          ELSE call' = [call EXCEPT
                           !.attempt = @ + 1,
                           !.last_error = IF response.raised = None THEN "ValueError"
                                          ELSE response.raised,
                           !.responses = Append(@, response),
                           !.sleeps = Append(@, 2 ^ call.attempt)]
    /\ UNCHANGED <<tasks, raised, added, orch, foreign>>

\* one turn of the loop "for attempt in range(max_retries + 1)": the call of the model,
\* the return of a response that is not empty after strip(), and the except clause
GenerateAttempt ==
    /\ call.pc = "generate"
    /\ call.attempt \in 0..call.max_retries
    /\ \E response \in GenerateResponses :
          IF response.raised = None /\ response.value # <<>> /\ strip(response.value) # <<>>
          THEN call' = [pc |-> "returned", max_retries |-> call.max_retries,
                        result |-> Returned(response.value),
                        responses |-> Append(call.responses, response),
                        sleeps |-> call.sleeps]
          ELSE call' = [call EXCEPT
                           !.attempt = @ + 1,
                           !.last_error = IF response.raised = None THEN "ValueError"
                                          ELSE response.raised,
                           !.responses = Append(@, response),
                           !.sleeps = IF call.attempt < call.max_retries
                                      THEN Append(@, 2 ^ call.attempt) ELSE @]
    /\ UNCHANGED <<tasks, raised, added, orch, foreign>>

\* the raise after the loop
GenerateRaise ==
    /\ call.pc = "generate"
    /\ call.attempt \notin 0..call.max_retries
    /\ call' = [pc |-> "returned", max_retries |-> call.max_retries,
                result |-> Raised("Exception"),
                responses |-> call.responses,
                sleeps |-> call.sleeps]
    /\ UNCHANGED <<tasks, raised, added, orch, foreign>>

NextRetry == GenerateAttempt \/ GenerateRaise

SpecRetry == InitRetry /\ [][NextRetry]_vars

\* ---------------------------------------------------------------- a ready-task driver
\* A driver that schedules by status: once the graph validates, it takes a task from
\* get_ready_tasks, starts it, marks it completed, and repeats. Tasks are added
\* before the first one is started.
ReadyAddTask ==
    /\ \A i \in DOMAIN tasks : tasks[i].status = PENDING
    /\ AddTask

ReadyStart(id) ==
    /\ validate_dependencies(tasks).errors = <<>>
    /\ \A i \in DOMAIN tasks : tasks[i].status # IN_PROGRESS
    /\ id \in Range(get_ready_tasks(tasks))
    /\ tasks' = Update(tasks, id, [Lookup(tasks, id) EXCEPT !.status = IN_PROGRESS])
    /\ raised' = None
    /\ UNCHANGED <<added, orch, foreign, call>>

ReadyComplete(id) ==
    /\ id \in Keys(tasks)
    /\ Lookup(tasks, id).status = IN_PROGRESS
    /\ tasks' = Update(tasks, id, mark_completed(Lookup(tasks, id), "output"))
    /\ raised' = None
    /\ UNCHANGED <<added, orch, foreign, call>>

NextReady ==
    \/ ReadyAddTask
    \/ \E id \in TaskIds : ReadyStart(id)
    \/ \E id \in TaskIds : ReadyComplete(id)

SpecReady == Init /\ [][NextReady]_vars

\* the states in which ReadyStart can take a step
ReadyStartEnabled ==
    /\ validate_dependencies(tasks).errors = <<>>
    /\ \A i \in DOMAIN tasks : tasks[i].status # IN_PROGRESS
    /\ get_ready_tasks(tasks) # <<>>

\* the driver keeps going: it does not stop while it can start or complete a task
\* (weak fairness of both its steps, that of ReadyStart with its enabling condition
\* written out)
SpecReadyFair ==
    /\ SpecReady
    /\ ([]<>(~ReadyStartEnabled) \/ []<><<\E id \in TaskIds : ReadyStart(id)>>_vars)
    /\ WF_vars(\E id \in TaskIds : ReadyComplete(id))

\* ---------------------------------------------------------------- statuses
Terminal == {COMPLETED, FAILED, SKIPPED}

Sum(f) ==
    LET RECURSIVE SumOver(_)
        SumOver(S) == IF S = {} THEN 0
                      ELSE LET x == CHOOSE y \in S : TRUE IN f[x] + SumOver(S \ {x})
    IN SumOver(DOMAIN f)

\* C18: get_status_summary returns a mapping whose keys are all five statuses
\* (the ones no task has map to 0), each mapped to the number of tasks that have it,
\* so the counts add up to the number of tasks; it is a function of the graph alone,
\* so a step that leaves the graph as it was leaves the summary as it was.
C18_SummaryCounts ==
    LET summary == get_status_summary(tasks)
    IN /\ DOMAIN summary = TaskStatus
       /\ \A status \in TaskStatus :
              summary[status] = Cardinality({i \in DOMAIN tasks : tasks[i].status = status})
       /\ Sum(summary) = Len(tasks)

C18_Witness ==
    LET summary == get_status_summary(tasks)
    IN /\ summary[PENDING] = 1 /\ summary[COMPLETED] = 1 /\ summary[FAILED] = 1
       /\ summary[IN_PROGRESS] = 0 /\ summary[SKIPPED] = 0
       /\ raised = "duplicate"

\* C15: a step in which a task becomes FAILED changes the status and the error of that
\* task and nothing else: every other task, its dependents and transitive dependents
\* among them, keeps its status, output and error, the failed task keeps its
\* dependencies, priority and output, and get_execution_order gives what it gave
\* before the step, which is all the tasks whenever it gives an order.
C15_FailureStaysLocal ==
    [][\A i \in DOMAIN tasks \cap DOMAIN tasks' :
          (tasks[i].status # FAILED /\ tasks'[i].status = FAILED) =>
              /\ \A j \in DOMAIN tasks' : j # i => j \in DOMAIN tasks /\ tasks'[j] = tasks[j]
              /\ tasks'[i] = [tasks[i] EXCEPT !.status = FAILED, !.error = tasks'[i].error]
              /\ get_execution_order(tasks') = get_execution_order(tasks)
              /\ get_execution_order(tasks').raised = None =>
                     Range(get_execution_order(tasks').order) = Keys(tasks')]_vars

\* task 1 has failed, its dependent 2 and its transitive dependent 3 are PENDING
C15_Witness ==
    /\ Len(tasks) = 3
    /\ tasks[1].status = FAILED /\ tasks[1].error # None
    /\ tasks[2].dependencies = <<1>> /\ tasks[2].status = PENDING
    /\ tasks[3].dependencies = <<2>> /\ tasks[3].status = PENDING
    /\ get_execution_order(tasks).raised = None
    /\ Len(get_execution_order(tasks).order) = 3

\* ---------------------------------------------------------------- critical path
\* depth(task) on an acyclic graph without dangling dependencies: 1 for a task without
\* dependencies, else 1 + the greatest depth of its dependencies
RECURSIVE Depth(_, _)
Depth(ts, id) ==
    LET deps == DepsOf(ts, id)
    IN IF deps = {} THEN 1
       ELSE 1 + (CHOOSE d \in {Depth(ts, dep) : dep \in deps} :
                     \A dep \in deps : Depth(ts, dep) <= d)

IsLongestChain(ts, path) ==
    /\ ts = <<>> => path = <<>>
    /\ ts # <<>> =>
           /\ path # <<>>
           /\ Range(path) \subseteq Keys(ts)
           /\ DepsOf(ts, path[1]) = {}
           /\ \A i \in 2..Len(path) : path[i - 1] \in DepsOf(ts, path[i])
           /\ \A id \in Keys(ts) : Depth(ts, id) <= Len(path)
           /\ \E id \in Keys(ts) : Depth(ts, id) = Len(path)

IsChain(ts) ==
    \A i \in DOMAIN ts : ts[i].dependencies = IF ts[i].id = 1 THEN <<>> ELSE <<ts[i].id - 1>>

\* C16: on every graph without a cycle and without a dangling dependency,
\* get_critical_path returns a longest dependency chain: its first task has no
\* dependencies, each later task has its predecessor in the path among its
\* dependencies, and its length is the greatest depth of a task; on the chain
\* 1 <- 2 <- ... <- n it is <<1, 2, ..., n>>, and on the empty graph it is empty.
C16_CriticalPathLongest ==
    (~HasCycle(tasks) /\ ~HasDangling(tasks)) =>
        LET critical == get_critical_path(tasks)
        IN /\ critical.raised = None
           /\ IsLongestChain(tasks, critical.value)
           /\ IsChain(tasks) => critical.value = [i \in 1..Len(tasks) |-> i]

\* C17: once setup, database, backend and frontend (1..4, each depending on the one
\* before) are in the graph, whatever their priorities and the order they were added
\* in, get_execution_order returns <<setup, database, backend, frontend>>; while all
\* four are PENDING get_status_summary counts 4 PENDING and 0 for every other status;
\* and after setup.mark_completed() get_ready_tasks returns exactly <<database>>.
C17_FourTaskPlan ==
    Keys(tasks) = ScenarioIds =>
        /\ get_execution_order(tasks) = [raised |-> None, order |-> <<1, 2, 3, 4>>]
        /\ Lookup(tasks, 1).status = PENDING =>
               get_status_summary(tasks) =
                   [status \in TaskStatus |-> IF status = PENDING THEN 4 ELSE 0]
        /\ Lookup(tasks, 1).status = COMPLETED => get_ready_tasks(tasks) = <<2>>

\* frontend was added first and setup last, frontend has the higher priority
C17_Witness ==
    /\ Keys(tasks) = ScenarioIds
    /\ tasks[1].id = 4 /\ tasks[4].id = 1
    /\ tasks[1].priority > tasks[4].priority
    /\ Lookup(tasks, 1).status = COMPLETED

\* C19: a call of get_ready_tasks, get_execution_order, validate_dependencies,
\* get_status_summary, get_critical_path or get_task, whether it returns or raises,
\* leaves the graph as it was: the same ids in the same order, and for every task the
\* same status, dependencies, priority, output and error.
C19_QueriesChangeNothing ==
    [][(\/ \E task_id \in TaskIds : GetTask(task_id)
        \/ GetReadyTasks
        \/ GetExecutionOrder
        \/ ValidateDependencies
        \/ GetStatusSummary
        \/ GetCriticalPath) => tasks' = tasks]_vars

\* a query has raised on a graph in which a task is COMPLETED and another one FAILED
C19_Witness ==
    /\ raised \in {"circular", "non_existent"}
    /\ \E i \in DOMAIN tasks : tasks[i].status = COMPLETED /\ tasks[i].output # None
    /\ \E i \in DOMAIN tasks : tasks[i].status = FAILED /\ tasks[i].error # None

\* ---------------------------------------------------------------- the driver
AllPending == \A i \in DOMAIN tasks : tasks[i].status = PENDING

AllowedEdges ==
    {<<PENDING, IN_PROGRESS>>, <<IN_PROGRESS, COMPLETED>>, <<IN_PROGRESS, FAILED>>,
     <<PENDING, SKIPPED>>}

\* C12: in every run of the driver the status of a task changes only along
\* PENDING -> IN_PROGRESS, IN_PROGRESS -> COMPLETED, IN_PROGRESS -> FAILED and
\* PENDING -> SKIPPED; no task becomes COMPLETED or FAILED directly from PENDING.
C12_OnlySpecifiedEdges ==
    [][\A i \in DOMAIN tasks \cap DOMAIN tasks' :
          tasks'[i].status # tasks[i].status =>
              <<tasks[i].status, tasks'[i].status>> \in AllowedEdges]_vars

\* C14: in every execution of execute_plan, a step that sets the status of a task to
\* IN_PROGRESS is taken only when every task named in its dependencies is COMPLETED.
C14_StartsAfterDependencies ==
    [][\A i \in DOMAIN tasks \cap DOMAIN tasks' :
          (tasks[i].status # IN_PROGRESS /\ tasks'[i].status = IN_PROGRESS) =>
              \A dep_id \in Range(tasks[i].dependencies) :
                  /\ dep_id \in Keys(tasks)
                  /\ Lookup(tasks, dep_id).status = COMPLETED]_vars

TerminalKept ==
    \A i \in DOMAIN tasks \cap DOMAIN tasks' :
        tasks[i].status \in Terminal => tasks'[i].status = tasks[i].status

C13_CompletedHasNoError ==
    \A i \in DOMAIN tasks :
        /\ tasks[i].status = COMPLETED => tasks[i].output # None /\ tasks[i].error = None
        /\ tasks[i].status \in {PENDING, IN_PROGRESS} =>
               tasks[i].output = None /\ tasks[i].error = None

\* ---------------------------------------------------------------- agreement
\* C26: on every graph validate_dependencies returns an empty list exactly when
\* get_execution_order returns an order without raising.
C26_ValidateAgreesWithOrder ==
    LET validation == validate_dependencies(tasks)
    IN /\ validation.raised = None
       /\ validation.errors = <<>> <=> get_execution_order(tasks).raised = None

\* get_execution_order raises on three tasks none of which has a dangling dependency
\* or depends on itself, so the only entry of the list is the one it contributes
C26_Witness ==
    /\ Len(tasks) = 3
    /\ EdgeErrors(tasks) = <<>>
    /\ get_execution_order(tasks).raised = "circular"
    /\ Len(validate_dependencies(tasks).errors) = 1

\* ---------------------------------------------------------------- priority
PositionIn(order, id) == CHOOSE k \in DOMAIN order : order[k] = id

IndexOf(ts, id) == CHOOSE i \in DOMAIN ts : ts[i].id = id

\* the tasks not placed before position k whose dependencies are all placed before it
Candidates(ts, order, k) ==
    LET placed == {order[j] : j \in 1..(k - 1)}
    IN {id \in Keys(ts) \ placed : DepsOf(ts, id) \subseteq placed}

\* the position after which a task entered the ready queue: that of the last of its
\* dependencies, 0 for a task without dependencies
Entered(ts, order, id) ==
    LET positions == {PositionIn(order, dep) : dep \in DepsOf(ts, id)} \cup {0}
    IN CHOOSE p \in positions : \A q \in positions : q <= p

\* C22: in the sequence get_execution_order returns, the task at each position has the
\* greatest priority among the tasks not yet placed whose dependencies have all been
\* placed earlier; among such tasks of equal priority the one that entered the ready
\* queue first is placed first, and of those that entered together (the tasks without
\* dependencies among them) the one added to the graph first.
C22_PriorityDecides ==
    LET e == get_execution_order(tasks)
    IN e.raised = None =>
           \A k \in DOMAIN e.order :
               /\ e.order[k] \in Candidates(tasks, e.order, k)
               /\ \A id \in Candidates(tasks, e.order, k) \ {e.order[k]} :
                      LET placed == Lookup(tasks, e.order[k])
                          other == Lookup(tasks, id)
                      IN /\ other.priority <= placed.priority
                         /\ other.priority = placed.priority =>
                                \/ Entered(tasks, e.order, placed.id) < Entered(tasks, e.order, id)
                                \/ /\ Entered(tasks, e.order, placed.id) = Entered(tasks, e.order, id)
                                   /\ IndexOf(tasks, placed.id) < IndexOf(tasks, id)

\* the task added last has the higher priority and is placed first, and of the two
\* others, equal in priority, the one that was ready from the start goes before the
\* dependent of the first
C22_Witness ==
    LET e == get_execution_order(tasks)
    IN /\ Len(tasks) = 3
       /\ e.raised = None
       /\ e.order = <<3, 1, 2>>
       /\ tasks[3].priority > tasks[1].priority
       /\ tasks[1].priority = tasks[2].priority
       /\ tasks[1].dependencies = <<>>
       /\ tasks[2].dependencies = <<3>>

\* ---------------------------------------------------------------- the cycle error
\* the tasks that lie on a dependency cycle or transitively depend on one that does
DependsOnCycle(ts) ==
    {id \in Keys(ts) : (TransitiveDeps(ts, id) \cup {id}) \cap OnCycle(ts) # {}}

\* C23: when get_execution_order fails because of a cycle, the ids its error names,
\* which are the tasks it has not placed, are exactly the tasks that lie on a
\* dependency cycle or transitively depend on a task that does.
C23_CycleErrorNamesStuck ==
    LET e == get_execution_order(tasks)
    IN (e.raised = "circular" /\ HasCycle(tasks)) => e.remaining = DependsOnCycle(tasks)

\* ---------------------------------------------------------------- the two depths
\* C30: on every graph without a cycle and without a dangling dependency the guarded
\* get_depth and the unguarded _get_task_depth return the same value for every task,
\* the depth of the task, and the path _build_critical_path rebuilds from a task has
\* that depth as its length.
C30_DepthsAgree ==
    (~HasCycle(tasks) /\ ~HasDangling(tasks)) =>
        \A id \in Keys(tasks) :
            /\ get_depth(tasks, id, {}) = Returned(Depth(tasks, id))
            /\ _get_task_depth(tasks, id) = get_depth(tasks, id, {})
            /\ _build_critical_path(tasks, id).raised = None
            /\ Len(_build_critical_path(tasks, id).value) = Depth(tasks, id)

\* task 3 has depth 3 over a dependency list that names a shallow and a deep task
C30_Witness ==
    /\ Len(tasks) = 3
    /\ ~HasCycle(tasks) /\ ~HasDangling(tasks)
    /\ tasks[3].dependencies = <<1, 2>>
    /\ get_depth(tasks, 3, {}) = Returned(3)
    /\ _build_critical_path(tasks, 3) = Returned(<<1, 2, 3>>)

\* C24: on every graph, with a cycle or a self-dependency or without,
\* get_critical_path ends: it returns a path or raises the ValueError of
\* get_execution_order, and never recurses without bound, which would show as
\* RecursionError; the guarded get_depth ends on every task of every graph.
C24_CriticalPathTerminates ==
    /\ get_critical_path(tasks).raised \in {None} \cup ValueError
    /\ \A id \in Keys(tasks) : get_depth(tasks, id, {}).raised \in {None, "KeyError"}

\* a graph with a self-dependency and a longer cycle, on which the unguarded
\* _get_task_depth would recurse without bound
C24_Witness ==
    /\ HasSelfDep(tasks)
    /\ \E id \in Keys(tasks) : id \in OnCycle(tasks) /\ id \notin DepsOf(tasks, id)
    /\ ~HasDangling(tasks)
    /\ \A id \in Keys(tasks) : _get_task_depth(tasks, id).raised = "RecursionError"
    /\ get_critical_path(tasks).raised = "circular"

\* ---------------------------------------------------------------- chunk order
\* C29: for every list of tasks with distinct ids, _sort_tasks_by_dependencies ends
\* and returns each task of the list exactly once, every dependency that is in the
\* list before the task that names it, also when the dependencies form a cycle or a
\* task depends on itself.
C29_ChunkSortIsTopological ==
    LET sorted == _sort_tasks_by_dependencies(tasks)
    IN /\ sorted.raised = None
       /\ Len(sorted.value) = Len(tasks)
       /\ Range(sorted.value) = Keys(tasks)
       /\ \A k \in DOMAIN sorted.value :
              \A dep \in DepsOf(tasks, sorted.value[k]) \cap Keys(tasks) :
                  \E j \in 1..(k - 1) : sorted.value[j] = dep

\* ---------------------------------------------------------------- execute_plan
\* execute_plan is in its loop; the task being run, if any, is the head of the order
InLoop == orch.pc \in {"loop", "run_task"}

Running == IF orch.pc = "run_task" THEN {Head(orch.execution_order)} ELSE {}

\* execute_plan has returned (run called it: validated, not a dry run)
ExecutePlanReturned == orch.pc = "done" /\ orch.validated /\ ~orch.dry_run

\* C27: execute_plan visits every task of the execution order exactly once: while it
\* loops, the tasks still to visit are distinct and are exactly the PENDING ones, the
\* task being run is IN_PROGRESS, and only the task at the head of the remaining order
\* changes status; when it has returned no task is IN_PROGRESS or PENDING, and it has
\* returned True only if every task of the graph is COMPLETED.
C27_VisitsEachTaskOnce ==
    /\ [](InLoop =>
            /\ Cardinality(Range(orch.execution_order)) = Len(orch.execution_order)
            /\ \A i \in DOMAIN tasks :
                   /\ tasks[i].status = PENDING <=>
                          tasks[i].id \in Range(orch.execution_order) \ Running
                   /\ tasks[i].status = IN_PROGRESS <=> tasks[i].id \in Running)
    /\ [](ExecutePlanReturned =>
            /\ \A i \in DOMAIN tasks : tasks[i].status \notin {IN_PROGRESS, PENDING}
            /\ orch.result = "True" => \A i \in DOMAIN tasks : tasks[i].status = COMPLETED)
    /\ [][\A i \in DOMAIN tasks \cap DOMAIN tasks' :
             tasks'[i].status # tasks[i].status =>
                 InLoop /\ tasks[i].id = Head(orch.execution_order)]_vars

\* execute_plan has returned True on three tasks
C27_Witness ==
    /\ ExecutePlanReturned
    /\ orch.result = "True"
    /\ Len(tasks) = 3
    /\ \A i \in DOMAIN tasks : tasks[i].status = COMPLETED /\ tasks[i].output # None

\* ---------------------------------------------------------------- progress
AllCompleted == \A i \in DOMAIN tasks : tasks[i].status = COMPLETED

\* C25: on a graph for which validate_dependencies returns an empty list, in every
\* state with a PENDING task and no task IN_PROGRESS, FAILED or SKIPPED,
\* get_ready_tasks returns a non-empty list; a driver that keeps starting a task from
\* get_ready_tasks and marking it completed brings every task to COMPLETED; and it
\* sets a task IN_PROGRESS only when all the dependencies of the task are COMPLETED.
C25_ReadyDriverProgress ==
    /\ []((/\ validate_dependencies(tasks).errors = <<>>
           /\ \E i \in DOMAIN tasks : tasks[i].status = PENDING
           /\ \A i \in DOMAIN tasks : tasks[i].status \in {PENDING, COMPLETED})
              => get_ready_tasks(tasks) # <<>>)
    /\ (\E i \in DOMAIN tasks : tasks[i].status # PENDING) ~> AllCompleted
    /\ [][\A i \in DOMAIN tasks \cap DOMAIN tasks' :
             (tasks[i].status # IN_PROGRESS /\ tasks'[i].status = IN_PROGRESS) =>
                 \A dep_id \in Range(tasks[i].dependencies) :
                     dep_id \in completed_tasks(tasks)]_vars

\* the driver has completed three tasks, the last of them after both its dependencies
C25_Witness ==
    /\ Len(tasks) = 3
    /\ AllCompleted
    /\ tasks[1].dependencies = <<>>
    /\ tasks[2].dependencies = <<1>>
    /\ tasks[3].dependencies = <<1, 2>>

\* ---------------------------------------------------------------- interleaved summary
\* C21: get_status_summary that runs interleaved with the status changes of a driver,
\* with no add_task during the call, returns without an exception, and the counts it
\* returns are over the five statuses and sum to the number of tasks in the graph.
C21_SummaryInterleaved ==
    [][(call.pc = "summary" /\ call'.pc = "returned") =>
           /\ call'.result.raised = None
           /\ DOMAIN call'.result.value = TaskStatus
           /\ Sum(call'.result.value) = Len(tasks')]_vars

\* the loop of a call has read the three tasks, each while it was PENDING, and every
\* one of them has reached a terminal status since: the counts the call is about to
\* return sum to three and match the statuses of no moment after the first read
C21_Witness ==
    /\ call.pc = "summary"
    /\ Len(tasks) = 3
    /\ call.position = 4
    /\ call.summary[PENDING] = 3
    /\ tasks[1].status = COMPLETED
    /\ tasks[2].status = FAILED
    /\ tasks[3].status = COMPLETED
\* ---------------------------------------------------------------- retries
\* an attempt fails when the model raises or returns nothing but whitespace
FailedAttempt(response) == response.raised # None \/ strip(response.value) = <<>>

\* C28: _generate_with_retries calls the model at most max_retries + 1 times; it
\* returns the first response that is not empty after stripping, unchanged, and calls
\* the model no more; an empty response counts as a failed attempt; it raises only
\* after exactly max_retries + 1 failed attempts; and it sleeps 2 ** attempt seconds
\* after each failed attempt but the last one allowed.
C28_RetriesBounded ==
    /\ [](/\ Len(call.responses) <= call.max_retries + 1
          /\ \A i \in 1..(Len(call.responses) - 1) : FailedAttempt(call.responses[i])
          /\ call.pc = "generate" =>
                \A i \in DOMAIN call.responses : FailedAttempt(call.responses[i])
          /\ (call.pc = "returned" /\ call.result.raised = None) =>
                /\ call.responses # <<>>
                /\ ~FailedAttempt(call.responses[Len(call.responses)])
                /\ call.result.value = call.responses[Len(call.responses)].value
                /\ Len(call.sleeps) = Len(call.responses) - 1
          /\ (call.pc = "returned" /\ call.result.raised # None) =>
                /\ Len(call.responses) = call.max_retries + 1
                /\ \A i \in DOMAIN call.responses : FailedAttempt(call.responses[i])
                /\ Len(call.sleeps) = call.max_retries
          /\ \A i \in DOMAIN call.sleeps : call.sleeps[i] = 2 ^ (i - 1))
    /\ [][call.pc = "returned" => call' = call]_vars

\* the third call of the model has returned a response with text in it, after an
\* exception and a response of whitespace, and two sleeps of one and two seconds
C28_Witness ==
    /\ call.pc = "returned"
    /\ call.max_retries = 2
    /\ call.result.raised = None
    /\ call.result.value = <<" ", "a">>
    /\ Len(call.responses) = 3
    /\ call.responses[1].raised = "Exception"
    /\ call.responses[2] = Returned(<<"\n">>)
    /\ call.sleeps = <<1, 2>>

====
